---- MODULE Spec2Model ----
(***************************************************************************)
(* Dataset registry and user store of parkour_api (app/routes/datasets.py,  *)
(* app/routes/auth.py, app/models/dataset.py).  The state is the committed *)
(* `datasets` and `users` tables, the access tokens issued so far, the     *)
(* wall clock, and the last request together with its response.  In Spec,  *)
(* SpecList and SpecAuth each action is one HTTP handler run to completion *)
(* inside its own request scope: the SQLAlchemy session lives for one      *)
(* request, so what a handler changed on its session objects reaches the   *)
(* table only through db.session.commit().  In SpecConc two workers serve  *)
(* requests whose reads and whose commit are separate steps (`txns`).      *)
(***************************************************************************)
EXTENDS Integers, Sequences, FiniteSets, TLC

VARIABLES datasets, clock, req, resp, users, tokens, txns, events

vars == <<datasets, clock, req, resp, users, tokens, txns, events>>

(* ------------------------------ bounds --------------------------------- *)

\* number of requests served in one run; the clock reading is the request number
MaxClock == 3

(* --------------------------- input alphabets --------------------------- *)

\* dataset ids a caller creates or addresses
Ids == {"A", "B"}
\* ids a caller may name as upstream dependency ("Z" is never created)
DepIds == Ids \cup {"Z"}

\* Python None / SQL NULL in a string column
NoneStr == "<None>"
\* Python None / SQL NULL in the ARRAY column (no list of ids equals it)
NoneList == <<"<None>">>
\* enumeration helpers: the key is not in the JSON body
AbsentStr == "<absent>"
AbsentList == <<"<absent>">>

RequiredFields == <<"dataset_id", "dataset_name", "dataset_type", "layer">>

Range(s) == {s[i] : i \in DOMAIN s}

\* the JSON object holding exactly the keys whose value is not the absent marker
Body(full) ==
    LET present == {k \in DOMAIN full :
                        IF k = "upstream_dependencies" THEN full[k] # AbsentList
                                                       ELSE full[k] # AbsentStr}
    IN  [k \in present |-> full[k]]

(* ------------------------------ the model ------------------------------ *)

\* data.get(key): None for a missing key of a string field
GetStr(data, key) == IF key \in DOMAIN data THEN data[key] ELSE NoneStr

\* Python truthiness of a string-or-None and of a list-or-None
TruthyStr(v) == v # NoneStr /\ v # ""
TruthyList(v) == v # NoneList /\ v # <<>>

\* Dataset.query.get(dataset_id): zero or one row
QueryGet(D, id) == IF id \in DOMAIN D THEN <<D[id]>> ELSE <<>>

\* Dataset.to_dict
to_dict(row) ==
    [dataset_id |-> row.dataset_id,
     dataset_name |-> row.dataset_name,
     dataset_type |-> row.dataset_type,
     layer |-> row.layer,
     upstream_dependencies |->
        IF row.upstream_dependencies = NoneList THEN <<>> ELSE row.upstream_dependencies,
     status |-> row.status,
     created_ts |-> row.created_ts,
     updated_ts |-> row.updated_ts]

\* response shapes of jsonify(...), status
Error(code, msg) == [status |-> code, error |-> msg, missing |-> {}, dataset |-> <<>>]
MissingError(ids) ==
    [status |-> 400, error |-> "Upstream dependencies not found", missing |-> ids, dataset |-> <<>>]
Ok(code, body) == [status |-> code, error |-> "", missing |-> {}, dataset |-> body]

NoResp == Error(0, "")
NoReq == [op |-> "none", id |-> "", data |-> <<>>]

\* the workers of SpecConc
Procs == {1, 2}
Idle == [pc |-> "idle"]

Init ==
    /\ datasets = <<>>
    /\ clock = 0
    /\ req = NoReq
    /\ resp = NoResp
    /\ users = <<>>
    /\ tokens = {}
    /\ txns = [p \in Procs |-> Idle]
    /\ events = 0

\* variant: the not-found check is missing and an empty body is returned
get_dataset_result_unchecked(D, id) ==
    IF QueryGet(D, id) = <<>>
    THEN Ok(200, <<>>)
    ELSE Ok(200, <<to_dict(D[id])>>)

\* GET /api/datasets/<dataset_id>
get_dataset_result(D, id) ==
    IF QueryGet(D, id) = <<>>
    THEN Error(404, "Dataset not found")
    ELSE Ok(200, <<to_dict(D[id])>>)

get_dataset ==
    \E id \in DepIds :
        /\ clock < MaxClock
        /\ req' = [op |-> "get", id |-> id, data |-> <<>>]
        /\ resp' = get_dataset_result(datasets, id)
        /\ clock' = clock + 1
        /\ UNCHANGED datasets
        /\ UNCHANGED <<users, tokens, txns, events>>

\* variant: the existence check of lines 85-87 is missing and the insert overwrites
create_check_no_conflict(D, data) ==
    IF ~TruthyStr(GetStr(data, "dataset_id")) THEN Error(400, "dataset_id is required")
    ELSE IF ~TruthyStr(GetStr(data, "dataset_name")) THEN Error(400, "dataset_name is required")
    ELSE IF ~TruthyStr(GetStr(data, "dataset_type")) THEN Error(400, "dataset_type is required")
    ELSE IF ~TruthyStr(GetStr(data, "layer")) THEN Error(400, "layer is required")
    ELSE NoResp

\* data.get('upstream_dependencies', [])
upstream_deps_of(data) ==
    IF "upstream_dependencies" \in DOMAIN data THEN data["upstream_dependencies"] ELSE <<>>

\* variant: the listed ids are taken as found without querying the table
existing_ids_create_unqueried(D, deps) == Range(deps)

\* Dataset.query.filter(Dataset.dataset_id.in_(upstream_deps)).all(), as ids
existing_ids_create(D, deps) == {id \in DOMAIN D : id \in Range(deps)}

\* variant: validation stops at the first absent id
missing_ids_create_first(D, deps) ==
    LET missing == Range(deps) \ existing_ids_create(D, deps)
    IN  IF missing = {} THEN {} ELSE {CHOOSE id \in missing : TRUE}

missing_ids_create(D, deps) == Range(deps) \ existing_ids_create(D, deps)

\* variant: the dependencies are validated before the id is looked up
create_check_deps_first(D, data) ==
    IF ~TruthyStr(GetStr(data, "dataset_id")) THEN Error(400, "dataset_id is required")
    ELSE IF ~TruthyStr(GetStr(data, "dataset_name")) THEN Error(400, "dataset_name is required")
    ELSE IF ~TruthyStr(GetStr(data, "dataset_type")) THEN Error(400, "dataset_type is required")
    ELSE IF ~TruthyStr(GetStr(data, "layer")) THEN Error(400, "layer is required")
    ELSE IF TruthyList(upstream_deps_of(data)) /\ missing_ids_create(D, upstream_deps_of(data)) # {}
         THEN MissingError(missing_ids_create(D, upstream_deps_of(data)))
    ELSE IF QueryGet(D, data["dataset_id"]) # <<>> THEN Error(400, "Dataset ID already exists")
    ELSE NoResp

\* create_dataset, lines 79-100: the first check that fails, or NoResp
create_check(D, data) ==
    IF ~TruthyStr(GetStr(data, "dataset_id")) THEN Error(400, "dataset_id is required")
    ELSE IF ~TruthyStr(GetStr(data, "dataset_name")) THEN Error(400, "dataset_name is required")
    ELSE IF ~TruthyStr(GetStr(data, "dataset_type")) THEN Error(400, "dataset_type is required")
    ELSE IF ~TruthyStr(GetStr(data, "layer")) THEN Error(400, "layer is required")
    ELSE IF QueryGet(D, data["dataset_id"]) # <<>> THEN Error(400, "Dataset ID already exists")
    ELSE IF TruthyList(upstream_deps_of(data)) /\ missing_ids_create(D, upstream_deps_of(data)) # {}
         THEN MissingError(missing_ids_create(D, upstream_deps_of(data)))
    ELSE NoResp

\* variant: the supplied status is ignored and the column default is stored
new_dataset_default_status(data, now) ==
    [dataset_id |-> data["dataset_id"],
     dataset_name |-> data["dataset_name"],
     dataset_type |-> data["dataset_type"],
     layer |-> data["layer"],
     upstream_dependencies |-> upstream_deps_of(data),
     status |-> "active",
     created_ts |-> now,
     updated_ts |-> now]

\* Dataset(...) of lines 103-110, with the column defaults of created_ts, updated_ts
new_dataset(data, now) ==
    [dataset_id |-> data["dataset_id"],
     dataset_name |-> data["dataset_name"],
     dataset_type |-> data["dataset_type"],
     layer |-> data["layer"],
     upstream_dependencies |-> upstream_deps_of(data),
     status |-> IF "status" \in DOMAIN data THEN data["status"] ELSE "active",
     created_ts |-> now,
     updated_ts |-> now]

\* the whole handler: the response and the table after the request
create_dataset_result(D, data, now) ==
    LET failed == create_check(D, data)
        dataset == new_dataset(data, now)
    IN  IF failed # NoResp
        THEN [resp |-> failed, db |-> D]
        ELSE [resp |-> Ok(201, <<to_dict(dataset)>>),
              db |-> (dataset.dataset_id :> dataset) @@ D]

\* POST bodies: well-formed ones, and ones with a required field empty or missing
CreateDeps == {AbsentList, <<>>, <<"A">>, <<"A", "B">>, <<"B", "Z">>}

CreateInputs ==
    {Body([dataset_id |-> i, dataset_name |-> n, dataset_type |-> "t1", layer |-> "l1",
           upstream_dependencies |-> d, status |-> s]) :
        i \in Ids, n \in {"n1", "n2"}, d \in CreateDeps, s \in {AbsentStr, "inactive"}}
    \cup
    {Body([dataset_id |-> "A", dataset_name |-> n, dataset_type |-> t, layer |-> l,
           upstream_dependencies |-> <<"B", "Z">>, status |-> AbsentStr]) :
        n \in {"n1", ""}, t \in {"t1", AbsentStr}, l \in {"l1", ""}}
    \cup
    {Body([dataset_id |-> "", dataset_name |-> "n1", dataset_type |-> "t1", layer |-> "l1",
           upstream_dependencies |-> AbsentList, status |-> AbsentStr])}

create_dataset ==
    \E data \in CreateInputs :
        LET r == create_dataset_result(datasets, data, clock)
        IN  /\ clock < MaxClock
            /\ req' = [op |-> "create", id |-> "", data |-> data]
            /\ resp' = r.resp
            /\ datasets' = r.db
            /\ clock' = clock + 1
            /\ UNCHANGED <<users, tokens, txns, events>>

\* variant: the delete cascades to the datasets that list the deleted id
delete_dataset_result_cascade(D, id) ==
    IF QueryGet(D, id) = <<>>
    THEN [resp |-> Error(404, "Dataset not found"), db |-> D]
    ELSE [resp |-> Ok(200, <<>>),
          db |-> [k \in {j \in DOMAIN D \ {id} : D[j].upstream_dependencies = NoneList
                                                 \/ id \notin Range(D[j].upstream_dependencies)}
                  |-> D[k]]]

\* DELETE /api/datasets/<dataset_id>
delete_dataset_result(D, id) ==
    IF QueryGet(D, id) = <<>>
    THEN [resp |-> Error(404, "Dataset not found"), db |-> D]
    ELSE [resp |-> Ok(200, <<>>), db |-> [k \in DOMAIN D \ {id} |-> D[k]]]

delete_dataset ==
    \E id \in DepIds :
        LET r == delete_dataset_result(datasets, id)
        IN  /\ clock < MaxClock
            /\ req' = [op |-> "delete", id |-> id, data |-> <<>>]
            /\ resp' = r.resp
            /\ datasets' = r.db
            /\ clock' = clock + 1
            /\ UNCHANGED <<users, tokens, txns, events>>

\* NOT NULL columns of the datasets table (nullable=False)
NotNullViolated(row) ==
    \/ row.dataset_name = NoneStr
    \/ row.dataset_type = NoneStr
    \/ row.layer = NoneStr
    \/ row.status = NoneStr

\* variant: the pending state reaches the table whether or not it was committed
end_of_request_keep(D, S, committed) == S

\* the table at the end of a request: the session's pending state if the
\* handler committed it, the committed table if it returned or rolled back
\* (the request-scoped session is discarded with whatever it had flushed)
end_of_request(D, S, committed) == IF committed THEN S ELSE D

\* update_dataset, lines 152-157: the rows the dependency query returns, as ids
existing_ids_update(D, deps, dataset_id) ==
    {id \in DOMAIN D : id \in Range(deps) /\ id # dataset_id}

\* variant: the update path never reports a missing id
missing_ids_update_none(D, deps, dataset_id) == {}

missing_ids_update(D, deps, dataset_id) == Range(deps) \ existing_ids_update(D, deps, dataset_id)

\* variant: dataset_type is copied from the body's dataset_name
set_field_wrong_key(row, data, key) ==
    IF key \in DOMAIN data
    THEN IF key = "dataset_type" /\ "dataset_name" \in DOMAIN data
         THEN [row EXCEPT ![key] = data["dataset_name"]]
         ELSE [row EXCEPT ![key] = data[key]]
    ELSE row

\* one `if key in data: dataset.key = data[key]` of lines 141-146, 163-164
set_field(row, data, key) == IF key \in DOMAIN data THEN [row EXCEPT ![key] = data[key]] ELSE row

\* the whole handler: the response and the table after the request
update_dataset_result(D, dataset_id, data, now) ==
    IF QueryGet(D, dataset_id) = <<>>
    THEN [resp |-> Error(404, "Dataset not found"), db |-> D]
    ELSE
    LET dataset == D[dataset_id]
        named == set_field(set_field(set_field(dataset, data, "dataset_name"),
                                     data, "dataset_type"), data, "layer")
        has_deps == "upstream_dependencies" \in DOMAIN data
        upstream_deps == data["upstream_dependencies"]
        queried == has_deps /\ TruthyList(upstream_deps)
        missing_ids == missing_ids_update(D, upstream_deps, dataset_id)
        with_deps == IF has_deps THEN [named EXCEPT !.upstream_dependencies = upstream_deps]
                                 ELSE named
        final == [set_field(with_deps, data, "status") EXCEPT !.updated_ts = now]
    IN  IF queried /\ NotNullViolated(named)
        THEN \* the query autoflushes the pending row: IntegrityError, rollback
             [resp |-> Error(500, "IntegrityError"),
              db |-> end_of_request(D, [D EXCEPT ![dataset_id] = named], FALSE)]
        ELSE IF queried /\ missing_ids # {}
        THEN [resp |-> MissingError(missing_ids),
              db |-> end_of_request(D, [D EXCEPT ![dataset_id] = named], FALSE)]
        ELSE IF NotNullViolated(final)
        THEN \* db.session.commit() raises: rollback
             [resp |-> Error(500, "IntegrityError"),
              db |-> end_of_request(D, [D EXCEPT ![dataset_id] = final], FALSE)]
        ELSE [resp |-> Ok(200, <<to_dict(final)>>),
              db |-> end_of_request(D, [D EXCEPT ![dataset_id] = final], TRUE)]

\* PUT bodies: every body of at most two keys, and bodies naming every key
UpdateDeps == {AbsentList, NoneList, <<>>, <<"A">>, <<"A", "A">>, <<"A", "B">>, <<"B", "Z">>}

UpdateBodies ==
    {Body([dataset_name |-> n, dataset_type |-> t, layer |-> l,
           upstream_dependencies |-> d, status |-> s]) :
        n \in {AbsentStr, "n2", NoneStr}, t \in {AbsentStr, "t2"}, l \in {AbsentStr, "l2"},
        d \in UpdateDeps, s \in {AbsentStr, "inactive"}}

UpdateInputs == {data \in UpdateBodies : Cardinality(DOMAIN data) \in {0, 1, 2, 5}}

update_dataset ==
    \E dataset_id \in Ids, data \in UpdateInputs :
        LET r == update_dataset_result(datasets, dataset_id, data, clock)
        IN  /\ clock < MaxClock
            /\ req' = [op |-> "update", id |-> dataset_id, data |-> data]
            /\ resp' = r.resp
            /\ datasets' = r.db
            /\ clock' = clock + 1
            /\ UNCHANGED <<users, tokens, txns, events>>

Next ==
    \/ get_dataset
    \/ create_dataset
    \/ update_dataset
    \/ delete_dataset

Spec == Init /\ [][Next]_vars

(* ------------------------- the list endpoint --------------------------- *)

\* enumeration helper: the query parameter is not in the URL
AbsentInt == -1

\* the query string holding exactly the parameters that are not absent markers
Args(full) ==
    LET present == {k \in DOMAIN full :
                        IF k \in {"page", "per_page"} THEN full[k] # AbsentInt
                                                      ELSE full[k] # AbsentStr}
    IN  [k \in present |-> full[k]]

\* request.args.get(key, default, type=int)
ArgInt(args, key, default) == IF key \in DOMAIN args THEN args[key] ELSE default

\* variant: the layer parameter is read but never applied to the query
query_filter_no_layer(D, args) ==
    {id \in DOMAIN D :
        /\ TruthyStr(GetStr(args, "status")) => D[id].status = args["status"]
        /\ TruthyStr(GetStr(args, "dataset_type")) => D[id].dataset_type = args["dataset_type"]}

\* get_datasets, lines 24-31: the rows of the filtered query, as ids
query_filter(D, args) ==
    {id \in DOMAIN D :
        /\ TruthyStr(GetStr(args, "status")) => D[id].status = args["status"]
        /\ TruthyStr(GetStr(args, "dataset_type")) => D[id].dataset_type = args["dataset_type"]
        /\ TruthyStr(GetStr(args, "layer")) => D[id].layer = args["layer"]}

\* the orders in which a query without ORDER BY may return a set of rows
Orders(S) == {o \in [1..Cardinality(S) -> S] : Range(o) = S}

\* query.paginate(page, per_page, error_out=False) for page, per_page >= 1:
\* LIMIT per_page OFFSET (page - 1) * per_page of the rows in the given order
paginate_items(order, page, per_page) ==
    LET first == (page - 1) * per_page + 1
        last == IF page * per_page < Len(order) THEN page * per_page ELSE Len(order)
    IN  SubSeq(order, first, last)

\* pagination.pages
paginate_pages(total, per_page) == (total + per_page - 1) \div per_page

\* the whole handler: the responses it may give, one per row order
get_datasets_results(D, args) ==
    LET page == ArgInt(args, "page", 1)
        per_page == ArgInt(args, "per_page", 20)
        rows == query_filter(D, args)
    IN  {[status |-> 200,
          datasets |-> [i \in DOMAIN paginate_items(order, page, per_page) |->
                            to_dict(D[paginate_items(order, page, per_page)[i]])],
          total |-> Cardinality(rows),
          page |-> page,
          per_page |-> per_page,
          pages |-> paginate_pages(Cardinality(rows), per_page)] : order \in Orders(rows)}

\* GET query strings: filters with values, and one with an empty status
ListInputs ==
    {Args([status |-> s, dataset_type |-> t, layer |-> l, page |-> p, per_page |-> n]) :
        s \in {AbsentStr, "active", "inactive"}, t \in {AbsentStr, "t1"},
        l \in {AbsentStr, "l2"}, p \in {AbsentInt, 2, 3}, n \in {AbsentInt, 1}}
    \cup
    {Args([status |-> "", dataset_type |-> AbsentStr, layer |-> AbsentStr,
           page |-> AbsentInt, per_page |-> AbsentInt])}

get_datasets ==
    \E args \in ListInputs :
        \E r \in get_datasets_results(datasets, args) :
            /\ clock < MaxClock
            /\ req' = [op |-> "list", id |-> "", data |-> args]
            /\ resp' = r
            /\ clock' = clock + 1
            /\ UNCHANGED datasets
            /\ UNCHANGED <<users, tokens, txns, events>>

\* POST bodies of datasets that differ in type, layer and status
TypedCreateInputs ==
    {Body([dataset_id |-> i, dataset_name |-> "n1", dataset_type |-> c[1], layer |-> c[2],
           upstream_dependencies |-> AbsentList, status |-> c[3]]) :
        i \in Ids, c \in {<<"t1", "l1", AbsentStr>>, <<"t1", "l2", AbsentStr>>,
                          <<"t2", "l2", "active">>, <<"t1", "l2", "inactive">>,
                          <<"t2", "l1", "inactive">>}}

create_typed_dataset ==
    \E data \in TypedCreateInputs :
        LET r == create_dataset_result(datasets, data, clock)
        IN  /\ clock < MaxClock
            /\ req' = [op |-> "create", id |-> "", data |-> data]
            /\ resp' = r.resp
            /\ datasets' = r.db
            /\ clock' = clock + 1
            /\ UNCHANGED <<users, tokens, txns, events>>

NextList ==
    \/ create_typed_dataset
    \/ get_datasets

\* the registry filled by creates and read by the list endpoint
SpecList == Init /\ [][NextList]_vars

(* ---------------------- the user store and the tokens ------------------ *)

\* str(user.id): the identity a token carries
IdStr(n) ==
    CASE n = 1 -> "1" [] n = 2 -> "2" [] n = 3 -> "3" [] n = 4 -> "4" [] n = 5 -> "5"
      [] n = 6 -> "6"

\* User.query.get(user_id) for the identity string of a token: zero or one primary key
QueryGetUser(U, user_id) == {u \in DOMAIN U : IdStr(u) = user_id}

\* User.set_password: the salted hash stored instead of the password
password_hash(password) == <<"hash", password>>

\* User.check_password
check_password(user, password) == user.password_hash = password_hash(password)

\* User.to_dict: the record without the password hash
user_to_dict(user) ==
    [id |-> user.id, username |-> user.username, email |-> user.email,
     first_name |-> user.first_name, last_name |-> user.last_name,
     is_active |-> user.is_active, created_at |-> user.created_at,
     updated_at |-> user.updated_at]

\* create_access_token(identity=...), signed with the server's key
create_access_token(identity) == <<"jwt", identity>>
\* get_jwt_identity() of a verified token
get_jwt_identity(token) == token[2]
\* a request without Authorization header, and one with a token the server did not sign
NoToken == <<>>
BadToken == <<"garbage", "1">>

\* responses of the auth blueprint
AuthError(code, msg) == [status |-> code, error |-> msg, user |-> <<>>, access_token |-> NoToken]
AuthOk(code, user, token) ==
    [status |-> code, error |-> "", user |-> <<user_to_dict(user)>>, access_token |-> token]

\* @jwt_required() with the extension's default callbacks: <<>> lets the
\* request through, else the status and message the request is answered with
verify_jwt(token) ==
    IF token = NoToken THEN <<401, "Missing Authorization Header">>
    ELSE IF token[1] # "jwt" THEN <<422, "Signature verification failed">>
    ELSE <<>>

RegisterFields == <<"username", "email", "password", "first_name", "last_name">>

\* variant: the username lookup of lines 23-24 is missing
register_check_no_username(U, data) ==
    IF ~TruthyStr(GetStr(data, "username")) THEN AuthError(400, "username is required")
    ELSE IF ~TruthyStr(GetStr(data, "email")) THEN AuthError(400, "email is required")
    ELSE IF ~TruthyStr(GetStr(data, "password")) THEN AuthError(400, "password is required")
    ELSE IF ~TruthyStr(GetStr(data, "first_name")) THEN AuthError(400, "first_name is required")
    ELSE IF ~TruthyStr(GetStr(data, "last_name")) THEN AuthError(400, "last_name is required")
    ELSE IF \E u \in DOMAIN U : U[u].email = data["email"]
    THEN AuthError(400, "Email already exists")
    ELSE NoResp

\* register, lines 16-27: the first check that fails, or NoResp
register_check(U, data) ==
    IF ~TruthyStr(GetStr(data, "username")) THEN AuthError(400, "username is required")
    ELSE IF ~TruthyStr(GetStr(data, "email")) THEN AuthError(400, "email is required")
    ELSE IF ~TruthyStr(GetStr(data, "password")) THEN AuthError(400, "password is required")
    ELSE IF ~TruthyStr(GetStr(data, "first_name")) THEN AuthError(400, "first_name is required")
    ELSE IF ~TruthyStr(GetStr(data, "last_name")) THEN AuthError(400, "last_name is required")
    ELSE IF \E u \in DOMAIN U : U[u].username = data["username"]
    THEN AuthError(400, "Username already exists")
    ELSE IF \E u \in DOMAIN U : U[u].email = data["email"]
    THEN AuthError(400, "Email already exists")
    ELSE NoResp

\* User(...) and set_password of lines 30-36, with the column defaults
new_user(U, data, now) ==
    [id |-> Cardinality(DOMAIN U) + 1,
     username |-> data["username"],
     email |-> data["email"],
     first_name |-> data["first_name"],
     last_name |-> data["last_name"],
     password_hash |-> password_hash(data["password"]),
     is_active |-> TRUE,
     created_at |-> now,
     updated_at |-> now]

\* the whole handler: the response, the table after the request, the token issued
register_result(U, data, now) ==
    LET failed == register_check(U, data)
        user == new_user(U, data, now)
    IN  IF failed # NoResp
        THEN [resp |-> failed, db |-> U, issued |-> {}]
        ELSE [resp |-> AuthOk(201, user, create_access_token(IdStr(user.id))),
              db |-> (user.id :> user) @@ U,
              issued |-> {create_access_token(IdStr(user.id))}]

RegisterInputs ==
    {Body([username |-> n, email |-> e, password |-> w, first_name |-> "f1",
           last_name |-> "g1"]) :
        n \in {"u1", "u2"}, e \in {"e1", "e2", "u1"}, w \in {"p1", "p2"}}
    \cup
    {Body([username |-> "u1", email |-> "e2", password |-> w, first_name |-> f,
           last_name |-> "g1"]) : w \in {"", "p1"}, f \in {AbsentStr, "f1"}}

register ==
    \E data \in RegisterInputs :
        LET r == register_result(users, data, clock)
        IN  /\ clock < MaxClock
            /\ req' = [op |-> "register", data |-> data, token |-> NoToken]
            /\ resp' = r.resp
            /\ users' = r.db
            /\ tokens' = tokens \cup r.issued
            /\ clock' = clock + 1
            /\ UNCHANGED <<datasets, txns, events>>

\* the rows of User.query.filter((username == x) | (email == x))
login_matches(U, name) == {u \in DOMAIN U : U[u].username = name \/ U[u].email = name}

\* variant: the active flag is tested before the password
login_outcome_active_first(U, data, found) ==
    IF found = <<>>
    THEN [resp |-> AuthError(401, "Invalid username or password"), issued |-> {}]
    ELSE IF ~U[found[1]].is_active
    THEN [resp |-> AuthError(403, "User account is inactive"), issued |-> {}]
    ELSE IF ~check_password(U[found[1]], data["password"])
    THEN [resp |-> AuthError(401, "Invalid username or password"), issued |-> {}]
    ELSE [resp |-> AuthOk(200, U[found[1]], create_access_token(IdStr(found[1]))),
          issued |-> {create_access_token(IdStr(found[1]))}]

\* variant: the active flag is never tested
login_outcome_no_active_check(U, data, found) ==
    IF found = <<>> \/ ~check_password(U[found[1]], data["password"])
    THEN [resp |-> AuthError(401, "Invalid username or password"), issued |-> {}]
    ELSE [resp |-> AuthOk(200, U[found[1]], create_access_token(IdStr(found[1]))),
          issued |-> {create_access_token(IdStr(found[1]))}]

\* login, lines 69-82, for the row .first() returned (<<>> for None)
login_outcome(U, data, found) ==
    IF found = <<>> \/ ~check_password(U[found[1]], data["password"])
    THEN [resp |-> AuthError(401, "Invalid username or password"), issued |-> {}]
    ELSE IF ~U[found[1]].is_active
    THEN [resp |-> AuthError(403, "User account is inactive"), issued |-> {}]
    ELSE [resp |-> AuthOk(200, U[found[1]], create_access_token(IdStr(found[1]))),
          issued |-> {create_access_token(IdStr(found[1]))}]

\* the whole handler: one outcome per row .first() may return, the query
\* having no ORDER BY
login_results(U, data) ==
    IF ~TruthyStr(GetStr(data, "username")) \/ ~TruthyStr(GetStr(data, "password"))
    THEN {[resp |-> AuthError(400, "Username and password are required"), issued |-> {}]}
    ELSE IF login_matches(U, data["username"]) = {}
    THEN {login_outcome(U, data, <<>>)}
    ELSE {login_outcome(U, data, <<u>>) : u \in login_matches(U, data["username"])}

LoginInputs ==
    {Body([username |-> n, password |-> w]) :
        n \in {"u1", "u2", "e1"}, w \in {"p1", "p2"}}
    \cup {Body([username |-> "u1", password |-> AbsentStr])}

login ==
    \E data \in LoginInputs :
        \E r \in login_results(users, data) :
            /\ clock < MaxClock
            /\ req' = [op |-> "login", data |-> data, token |-> NoToken]
            /\ resp' = r.resp
            /\ tokens' = tokens \cup r.issued
            /\ clock' = clock + 1
            /\ UNCHANGED <<datasets, users, txns, events>>

\* the Authorization a caller can send: nothing, a token the server did not
\* sign, or a token the server issued
Presentable(issued) == issued \cup {NoToken, BadToken}

\* GET /api/auth/profile
get_profile_result(U, token) ==
    IF verify_jwt(token) # <<>>
    THEN AuthError(verify_jwt(token)[1], verify_jwt(token)[2])
    ELSE IF QueryGetUser(U, get_jwt_identity(token)) = {}
    THEN AuthError(404, "User not found")
    ELSE AuthOk(200, U[CHOOSE u \in QueryGetUser(U, get_jwt_identity(token)) : TRUE], NoToken)

get_profile ==
    \E token \in Presentable(tokens) :
        /\ clock < MaxClock
        /\ req' = [op |-> "get_profile", data |-> <<>>, token |-> token]
        /\ resp' = get_profile_result(users, token)
        /\ clock' = clock + 1
        /\ UNCHANGED <<datasets, users, tokens, txns, events>>

\* variant: the email lookup of lines 125-130 finds nothing
email_taken_by_other_never(U, email, user_id) == FALSE

\* variant: the lookup does not exclude the caller's own row
email_taken_by_other_or_self(U, email, user_id) == \E u \in DOMAIN U : U[u].email = email

\* update_profile, lines 125-128: some other user has the email
email_taken_by_other(U, email, user_id) ==
    \E u \in DOMAIN U : U[u].email = email /\ IdStr(u) # user_id

\* the whole handler, behind @jwt_required(): the response and the table
\* after the request
update_profile_result(U, token, data, now) ==
    IF verify_jwt(token) # <<>>
    THEN [resp |-> AuthError(verify_jwt(token)[1], verify_jwt(token)[2]), db |-> U]
    ELSE IF QueryGetUser(U, get_jwt_identity(token)) = {}
    THEN [resp |-> AuthError(404, "User not found"), db |-> U]
    ELSE
    LET user_id == get_jwt_identity(token)
        uid == CHOOSE u \in QueryGetUser(U, user_id) : TRUE
        named == set_field(set_field(U[uid], data, "first_name"), data, "last_name")
        final == [set_field(named, data, "email") EXCEPT !.updated_at = now]
    IN  IF "email" \in DOMAIN data /\ email_taken_by_other(U, data["email"], user_id)
        THEN [resp |-> AuthError(400, "Email already in use"),
              db |-> end_of_request(U, [U EXCEPT ![uid] = named], FALSE)]
        ELSE [resp |-> AuthOk(200, final, NoToken),
              db |-> end_of_request(U, [U EXCEPT ![uid] = final], TRUE)]

ProfileInputs ==
    {Body([first_name |-> f, last_name |-> l, email |-> e]) :
        f \in {AbsentStr, "f2"}, l \in {AbsentStr, "g2"}, e \in {AbsentStr, "e1", "e2"}}

update_profile ==
    \E token \in Presentable(tokens), data \in ProfileInputs :
        LET r == update_profile_result(users, token, data, clock)
        IN  /\ clock < MaxClock
            /\ req' = [op |-> "update_profile", data |-> data, token |-> token]
            /\ resp' = r.resp
            /\ users' = r.db
            /\ clock' = clock + 1
            /\ UNCHANGED <<datasets, tokens, txns, events>>

\* deactivation of a user, which no endpoint of the API performs
deactivate ==
    \E u \in DOMAIN users :
        /\ clock < MaxClock
        /\ users[u].is_active
        /\ users' = [users EXCEPT ![u].is_active = FALSE]
        /\ req' = [op |-> "deactivate", data |-> <<>>, token |-> NoToken]
        /\ resp' = AuthError(0, "")
        /\ clock' = clock + 1
        /\ UNCHANGED <<datasets, tokens, txns, events>>

\* the dataset endpoints as a caller reaches them
DatasetCalls ==
    {[op |-> "get", id |-> "A", data |-> <<>>],
     [op |-> "list", id |-> "", data |-> <<>>],
     [op |-> "create", id |-> "",
      data |-> [dataset_id |-> "A", dataset_name |-> "n1", dataset_type |-> "t1",
                layer |-> "l1"]],
     [op |-> "update", id |-> "A", data |-> [dataset_name |-> "n2"]],
     [op |-> "delete", id |-> "A", data |-> <<>>]}

\* variant: the endpoints are routed without @jwt_required()
dataset_endpoint_results_open(D, token, call, now) ==
    CASE call.op = "get" -> {[resp |-> get_dataset_result(D, call.id), db |-> D]}
      [] call.op = "list" -> {[resp |-> r, db |-> D] : r \in get_datasets_results(D, call.data)}
      [] call.op = "create" -> {create_dataset_result(D, call.data, now)}
      [] call.op = "update" -> {update_dataset_result(D, call.id, call.data, now)}
      [] call.op = "delete" -> {delete_dataset_result(D, call.id)}

\* a dataset endpoint behind @jwt_required(): the handler runs only for a
\* verified token
dataset_endpoint_results(D, token, call, now) ==
    IF verify_jwt(token) # <<>>
    THEN {[resp |-> Error(verify_jwt(token)[1], verify_jwt(token)[2]), db |-> D]}
    ELSE CASE call.op = "get" -> {[resp |-> get_dataset_result(D, call.id), db |-> D]}
           [] call.op = "list" ->
                {[resp |-> r, db |-> D] : r \in get_datasets_results(D, call.data)}
           [] call.op = "create" -> {create_dataset_result(D, call.data, now)}
           [] call.op = "update" -> {update_dataset_result(D, call.id, call.data, now)}
           [] call.op = "delete" -> {delete_dataset_result(D, call.id)}

dataset_endpoint ==
    \E token \in Presentable(tokens), call \in DatasetCalls :
        \E r \in dataset_endpoint_results(datasets, token, call, clock) :
            /\ clock < MaxClock
            /\ req' = [op |-> call.op, id |-> call.id, data |-> call.data, token |-> token]
            /\ resp' = r.resp
            /\ datasets' = r.db
            /\ clock' = clock + 1
            /\ UNCHANGED <<users, tokens, txns, events>>

NextAuth ==
    \/ register
    \/ login
    \/ get_profile
    \/ update_profile
    \/ deactivate
    \/ dataset_endpoint

\* the user store, the tokens it issues and the endpoints they open
SpecAuth == Init /\ [][NextAuth]_vars

(* ------------------------ concurrent requests -------------------------- *)

\* Two workers, each with its own request-scoped session.  A request's
\* reads and checks (begin_*) see the committed table; its flush and commit
\* (commit_*) is one step of the database.  `events` numbers the steps and
\* is the time of day.  The PUT bodies served here carry no
\* upstream_dependencies, so no statement is flushed before the commit.

\* a request between its checks and its commit
Pending(op, id, data, loaded, began) ==
    [pc |-> "commit", op |-> op, id |-> id, data |-> data, loaded |-> loaded,
     began |-> began, committed |-> 0, resp |-> NoResp]

\* a request that has returned; committed = 0 if it returned before committing
Done(op, id, data, loaded, began, committed, response) ==
    [pc |-> "done", op |-> op, id |-> id, data |-> data, loaded |-> loaded,
     began |-> began, committed |-> committed, resp |-> response]

CanBegin(p) == txns[p].pc \in {"idle", "done"} /\ clock < MaxClock

ConcCreateInputs ==
    {Body([dataset_id |-> "A", dataset_name |-> n, dataset_type |-> "t1", layer |-> "l1"]) :
        n \in {"n1", "n2"}}
    \cup
    {Body([dataset_id |-> "B", dataset_name |-> "n1", dataset_type |-> "t1", layer |-> "l1",
           upstream_dependencies |-> <<"A">>])}

ConcUpdateInputs ==
    {Body([dataset_name |-> n, status |-> s]) :
        n \in {AbsentStr, "n1", "n2"}, s \in {AbsentStr, "inactive"}}

\* create_dataset, lines 77-100, against the committed table
begin_create(p) ==
    \E data \in ConcCreateInputs :
        LET failed == create_check(datasets, data)
        IN  /\ CanBegin(p)
            /\ txns' = [txns EXCEPT ![p] =
                  IF failed # NoResp
                  THEN Done("create", data["dataset_id"], data, <<>>, events + 1, 0, failed)
                  ELSE Pending("create", data["dataset_id"], data, <<>>, events + 1)]
            /\ clock' = clock + 1
            /\ events' = events + 1
            /\ UNCHANGED <<datasets, req, resp, users, tokens>>

\* variant: the uniqueness failure falls to the generic handler of lines 123-125
commit_create_generic_error(D, data, now) ==
    IF data["dataset_id"] \in DOMAIN D
    THEN [resp |-> Error(500, "IntegrityError"), db |-> D]
    ELSE [resp |-> Ok(201, <<to_dict(new_dataset(data, now))>>),
          db |-> (data["dataset_id"] :> new_dataset(data, now)) @@ D]

\* create_dataset, lines 103-125: the INSERT meets the primary key of the
\* committed table; IntegrityError is answered by lines 120-122
commit_create(D, data, now) ==
    IF data["dataset_id"] \in DOMAIN D
    THEN [resp |-> Error(400, "Dataset ID already exists"), db |-> D]
    ELSE [resp |-> Ok(201, <<to_dict(new_dataset(data, now))>>),
          db |-> (data["dataset_id"] :> new_dataset(data, now)) @@ D]

\* update_dataset, lines 133-137: load the row, or 404; the bodies served
\* here pass every later check of the handler
begin_update(p) ==
    \E data \in ConcUpdateInputs :
        LET dataset_id == "A"
            found == QueryGet(datasets, dataset_id)
        IN  /\ CanBegin(p)
            /\ txns' = [txns EXCEPT ![p] =
                  IF found = <<>>
                  THEN Done("update", dataset_id, data, <<>>, events + 1, 0,
                            Error(404, "Dataset not found"))
                  ELSE Pending("update", dataset_id, data, found, events + 1)]
            /\ clock' = clock + 1
            /\ events' = events + 1
            /\ UNCHANGED <<datasets, req, resp, users, tokens>>

\* update_dataset, lines 141-166, on the session's copy of the row
pending_update(loaded, data, now) ==
    [set_field(set_field(set_field(set_field(set_field(loaded, data, "dataset_name"),
        data, "dataset_type"), data, "layer"), data, "upstream_dependencies"),
        data, "status") EXCEPT !.updated_ts = now]

\* the UPDATE the unit of work emits: it sets the columns whose value on the
\* session's copy differs from the value the session loaded, and no other
flush_update(stored, loaded, pending) ==
    [c \in DOMAIN stored |-> IF pending[c] # loaded[c] THEN pending[c] ELSE stored[c]]

\* update_dataset, lines 167-176: an UPDATE that matches no row raises
\* (StaleDataError) and is answered by the generic handler; the response is
\* built from the row as refreshed after the commit
commit_update(D, t, now) ==
    IF t.id \notin DOMAIN D
    THEN [resp |-> Error(500, "StaleDataError"), db |-> D]
    ELSE LET row == flush_update(D[t.id], t.loaded[1], pending_update(t.loaded[1], t.data, now))
         IN  [resp |-> Ok(200, <<to_dict(row)>>), db |-> [D EXCEPT ![t.id] = row]]

\* delete_dataset, lines 184-187
begin_delete(p) ==
    LET dataset_id == "A"
        found == QueryGet(datasets, dataset_id)
    IN  /\ CanBegin(p)
        /\ txns' = [txns EXCEPT ![p] =
              IF found = <<>>
              THEN Done("delete", dataset_id, <<>>, <<>>, events + 1, 0,
                        Error(404, "Dataset not found"))
              ELSE Pending("delete", dataset_id, <<>>, found, events + 1)]
        /\ clock' = clock + 1
        /\ events' = events + 1
        /\ UNCHANGED <<datasets, req, resp, users, tokens>>

\* delete_dataset, lines 189-194: a DELETE that matches no row only warns
commit_delete(D, t) ==
    [resp |-> Ok(200, <<>>), db |-> [k \in DOMAIN D \ {t.id} |-> D[k]]]

\* db.session.commit() of the request worker p is serving, and its response
commit(p) ==
    LET t == txns[p]
        now == events + 1
        r == CASE t.op = "create" -> commit_create(datasets, t.data, now)
               [] t.op = "update" -> commit_update(datasets, t, now)
               [] t.op = "delete" -> commit_delete(datasets, t)
    IN  /\ t.pc = "commit"
        /\ datasets' = r.db
        /\ txns' = [txns EXCEPT ![p] = Done(t.op, t.id, t.data, t.loaded, t.began, now, r.resp)]
        /\ events' = now
        /\ UNCHANGED <<clock, req, resp, users, tokens>>

NextConc ==
    \E p \in Procs :
        \/ begin_create(p)
        \/ begin_update(p)
        \/ begin_delete(p)
        \/ commit(p)

SpecConc == Init /\ [][NextConc]_vars

(* ------------------------------ properties ----------------------------- *)

\* vocabulary of the properties: a step serves request req' on table `datasets`
\* and leaves response resp' and table datasets'
Succeeded(r) == r.status \in {200, 201}
HasDeps(data) == "upstream_dependencies" \in DOMAIN data
HasNull(data) ==
    \/ \E k \in DOMAIN data \ {"upstream_dependencies"} : data[k] = NoneStr
    \/ (HasDeps(data) /\ data["upstream_dependencies"] = NoneList)
RequiredPresent(data) == \A i \in DOMAIN RequiredFields : TruthyStr(GetStr(data, RequiredFields[i]))
\* a create whose required fields are non-empty and whose id is not in the table
FreshCreate(r, D) ==
    r.op = "create" /\ RequiredPresent(r.data) /\ r.data["dataset_id"] \notin DOMAIN D
\* an update of a stored dataset with a non-empty dependency list and no null value
ListUpdate(r, D) ==
    /\ r.op = "update" /\ r.id \in DOMAIN D /\ ~HasNull(r.data)
    /\ HasDeps(r.data) /\ r.data["upstream_dependencies"] # <<>>
AbsentDeps(r, D) == Range(upstream_deps_of(r.data)) \ DOMAIN D

C2_UpdateAcceptsSelfDependency ==
    [][(/\ ListUpdate(req', datasets)
        /\ req'.id \in Range(req'.data["upstream_dependencies"])
        /\ AbsentDeps(req', datasets) = {})
        => /\ resp'.status = 200
           /\ req'.id \notin resp'.missing
           /\ datasets'[req'.id].upstream_dependencies = req'.data["upstream_dependencies"]]_vars

C5_FailedRequestPersistsNothing ==
    [][(req'.op \in {"create", "update", "delete"} /\ ~Succeeded(resp'))
        => datasets' = datasets]_vars

\* C5 witness: an update carrying a new name was refused with 400 on its
\* dependencies and the stored name is not the one it carried
C5_Witness ==
    /\ req.op = "update"
    /\ resp.status = 400
    /\ resp.missing # {}
    /\ "dataset_name" \in DOMAIN req.data
    /\ datasets[req.id].dataset_name # req.data["dataset_name"]

\* C5, the 500 path: an update carrying a new layer and a null name ended in
\* 500 and the stored layer is not the one it carried
C5_Witness500 ==
    /\ req.op = "update"
    /\ resp.status = 500
    /\ "layer" \in DOMAIN req.data
    /\ datasets[req.id].layer # req.data["layer"]

\* the row a stored dataset and a PUT body combine to: the body's value for
\* every key it holds, the stored value for the others
Merged(old, data, now) ==
    [dataset_id |-> old.dataset_id,
     dataset_name |-> IF "dataset_name" \in DOMAIN data THEN data["dataset_name"]
                                                        ELSE old.dataset_name,
     dataset_type |-> IF "dataset_type" \in DOMAIN data THEN data["dataset_type"]
                                                        ELSE old.dataset_type,
     layer |-> IF "layer" \in DOMAIN data THEN data["layer"] ELSE old.layer,
     upstream_dependencies |-> IF HasDeps(data) THEN data["upstream_dependencies"]
                                                ELSE old.upstream_dependencies,
     status |-> IF "status" \in DOMAIN data THEN data["status"] ELSE old.status,
     created_ts |-> old.created_ts,
     updated_ts |-> now]

\* C6: a create whose dataset_id is already in the registry answers 400 and
\* leaves the registry, the record with that id included, as it was, whatever
\* else the body holds; with the required fields non-empty the error is
\* 'Dataset ID already exists'.
C6_DuplicateCreateConflicts ==
    [][(/\ req'.op = "create"
        /\ TruthyStr(GetStr(req'.data, "dataset_id"))
        /\ req'.data["dataset_id"] \in DOMAIN datasets)
        => /\ resp'.status = 400
           /\ datasets' = datasets
           /\ RequiredPresent(req'.data)
                => resp' = Error(400, "Dataset ID already exists")]_vars

\* C6 witness: a create with a stored id and another name was refused as a conflict
C6_Witness ==
    /\ req.op = "create"
    /\ resp.error = "Dataset ID already exists"
    /\ req.data["dataset_id"] \in DOMAIN datasets
    /\ datasets[req.data["dataset_id"]].dataset_name # req.data["dataset_name"]

\* C7: a get of the id of the create that was served just before it, the
\* create having succeeded, returns 200 with the record the create returned,
\* whose fields are the supplied ones, the list [] when omitted and the status
\* 'active' when omitted.
C7_GetAfterCreate ==
    [][(/\ req.op = "create"
        /\ resp.status = 201
        /\ req'.op = "get"
        /\ req'.id = req.data["dataset_id"])
        => /\ resp'.status = 200
           /\ resp'.dataset = resp.dataset
           /\ LET got == resp'.dataset[1]
              IN  /\ got.dataset_id = req.data["dataset_id"]
                  /\ got.dataset_name = req.data["dataset_name"]
                  /\ got.dataset_type = req.data["dataset_type"]
                  /\ got.layer = req.data["layer"]
                  /\ got.upstream_dependencies =
                        (IF HasDeps(req.data) THEN req.data["upstream_dependencies"] ELSE <<>>)
                  /\ got.status =
                        (IF "status" \in DOMAIN req.data THEN req.data["status"] ELSE "active")]_vars

\* C7 witness: a get returned a dataset with a supplied status and a
\* non-empty list that was created by the request served just before
C7_Witness ==
    /\ req.op = "get"
    /\ resp.status = 200
    /\ resp.dataset[1].created_ts + 2 = clock
    /\ resp.dataset[1].status = "inactive"
    /\ resp.dataset[1].upstream_dependencies # <<>>

\* C8: a successful update stores, for each of dataset_name, dataset_type,
\* layer, upstream_dependencies and status, the body's value if the body has
\* the key and the stored value if not, sets updated_ts, and changes nothing
\* else in the registry; a body with upstream_dependencies [] and no null
\* value always succeeds on a stored dataset.
C8_UpdateChangesPresentFieldsOnly ==
    [][(req'.op = "update" /\ req'.id \in DOMAIN datasets)
        => /\ Succeeded(resp')
                => /\ datasets' = [datasets EXCEPT
                                     ![req'.id] = Merged(datasets[req'.id], req'.data, clock)]
                   /\ resp'.dataset = <<to_dict(datasets'[req'.id])>>
           /\ (HasDeps(req'.data) /\ req'.data["upstream_dependencies"] = <<>>
               /\ ~HasNull(req'.data))
                => Succeeded(resp')]_vars

\* C8 witness: an update without the upstream_dependencies key changed name
\* and type of a dataset whose stored list is non-empty
C8_Witness ==
    /\ req.op = "update"
    /\ resp.status = 200
    /\ ~HasDeps(req.data)
    /\ DOMAIN req.data = {"dataset_name", "dataset_type"}
    /\ datasets[req.id].upstream_dependencies = <<"A">>

\* C8, the other two cases: a list was cleared by [], and a list was replaced
\* by another non-empty list
C8_WitnessCleared ==
    /\ req.op = "update"
    /\ resp.status = 200
    /\ HasDeps(req.data)
    /\ req.data["upstream_dependencies"] = <<>>
    /\ datasets[req.id].upstream_dependencies = <<>>
    /\ datasets[req.id].created_ts + 2 = clock

C8_WitnessReplaced ==
    /\ req.op = "update"
    /\ resp.status = 200
    /\ datasets[req.id].upstream_dependencies = <<"A", "A">>
    /\ datasets[req.id].created_ts + 2 = clock

\* C9: a delete of a stored dataset answers 200 and removes that record and
\* no other: a get of the id then finds nothing, and every other record is
\* as it was, its list still naming the deleted id if it did.
C9_DeleteRemovesOnlyItsRecord ==
    [][(req'.op = "delete" /\ req'.id \in DOMAIN datasets)
        => /\ resp'.status = 200
           /\ get_dataset_result(datasets', req'.id) = Error(404, "Dataset not found")
           /\ DOMAIN datasets' = DOMAIN datasets \ {req'.id}
           /\ \A k \in DOMAIN datasets' : datasets'[k] = datasets[k]]_vars

\* C9 witness: a dataset was deleted and a stored dataset still lists its id
C9_Witness ==
    /\ req.op = "delete"
    /\ resp.status = 200
    /\ \E k \in DOMAIN datasets :
          /\ datasets[k].upstream_dependencies # NoneList
          /\ req.id \in Range(datasets[k].upstream_dependencies)
          /\ get_dataset_result(datasets, k).dataset[1].upstream_dependencies = <<req.id>>

\* C10: a get, an update or a delete of an id that is not in the registry
\* answers 404 'Dataset not found' and leaves the registry as it was.
C10_AbsentIdNotFound ==
    [][(req'.op \in {"get", "update", "delete"} /\ req'.id \notin DOMAIN datasets)
        => /\ resp' = Error(404, "Dataset not found")
           /\ datasets' = datasets]_vars

\* C10 witness: an update of an absent id, carrying a name, was answered
\* 404 while another dataset is stored
C10_Witness ==
    /\ req.op = "update"
    /\ resp.status = 404
    /\ "dataset_name" \in DOMAIN req.data
    /\ req.id \notin DOMAIN datasets
    /\ datasets # <<>>

\* C10, the second delete: a delete was answered 404 after two earlier requests
C10_WitnessSecondDelete ==
    /\ req.op = "delete"
    /\ resp.status = 404
    /\ req.id \in Ids
    /\ datasets = <<>>
    /\ clock = 3

\* the required fields of a body that are empty or missing, and the message
\* the claim gives for a field
EmptyRequired(data) == {i \in DOMAIN RequiredFields : ~TruthyStr(GetStr(data, RequiredFields[i]))}
RequiredMessage(field) ==
    CASE field = "dataset_id" -> "dataset_id is required"
      [] field = "dataset_name" -> "dataset_name is required"
      [] field = "dataset_type" -> "dataset_type is required"
      [] field = "layer" -> "layer is required"

C20_WitnessSelf ==
    /\ req.op = "create"
    /\ resp.status = 400
    /\ req.data["dataset_id"] \in resp.missing

C20_WitnessRequired ==
    /\ req.op = "create"
    /\ resp.error = "dataset_name is required"
    /\ Cardinality(EmptyRequired(req.data)) >= 2
    /\ req.data["dataset_id"] \in DOMAIN datasets

\* the stored datasets that equal every filter a query string supplies with
\* a non-empty value
Matching(D, args) ==
    {id \in DOMAIN D :
        \A k \in {"status", "dataset_type", "layer"} :
            (k \in DOMAIN args /\ args[k] # "") => D[id][k] = args[k]}
Min(a, b) == IF a < b THEN a ELSE b
Max(a, b) == IF a < b THEN b ELSE a

\* C11: a list answers 200; its items are distinct stored datasets that match
\* every supplied filter, as many as the requested page holds of the
\* matching datasets (all of them when one page holds them all, none when
\* the page lies beyond the last); total counts all matching datasets
\* whatever the page.
C11_ListFiltersAndPages ==
    [][req'.op = "list"
        => LET args == req'.data
               page == IF "page" \in DOMAIN args THEN args["page"] ELSE 1
               per_page == IF "per_page" \in DOMAIN args THEN args["per_page"] ELSE 20
               matching == Matching(datasets, args)
               items == resp'.datasets
           IN  /\ resp'.status = 200
               /\ resp'.total = Cardinality(matching)
               /\ \A i \in DOMAIN items :
                     /\ items[i].dataset_id \in matching
                     /\ items[i] = to_dict(datasets[items[i].dataset_id])
               /\ \A i, j \in DOMAIN items : items[i].dataset_id = items[j].dataset_id => i = j
               /\ Len(items) = Max(0, Min(per_page, Cardinality(matching) - (page - 1) * per_page))
               /\ datasets' = datasets]_vars

\* C11 witness: a list filtered on status and layer returned one dataset
\* of the two stored, the other one not matching the layer
C11_Witness ==
    /\ req.op = "list"
    /\ resp.status = 200
    /\ DOMAIN req.data = {"status", "layer"}
    /\ req.data["status"] = "active"
    /\ Len(resp.datasets) = 1
    /\ resp.total = 1
    /\ \E id \in DOMAIN datasets : datasets[id].status = "active" /\ datasets[id].layer # "l2"

\* C11, the second page: one item of two matching datasets
C11_WitnessSecondPage ==
    /\ req.op = "list"
    /\ resp.status = 200
    /\ resp.page = 2
    /\ resp.per_page = 1
    /\ Len(resp.datasets) = 1
    /\ resp.total = 2

\* C11, a page beyond the last: no items, the total of the matching datasets
C11_WitnessBeyond ==
    /\ req.op = "list"
    /\ resp.status = 200
    /\ resp.page = 3
    /\ resp.datasets = <<>>
    /\ resp.total = 2
    /\ "status" \in DOMAIN req.data
    /\ req.data["status"] = "inactive"

DatasetOps == {"get", "list", "create", "update", "delete"}

C13_UniqueUsernameAndEmail ==
    \A u, v \in DOMAIN users :
        u # v => /\ users[u].username # users[v].username
                 /\ users[u].email # users[v].email

\* C13 witness: with two users stored, an update_profile that supplied an
\* email succeeded
C13_Witness ==
    /\ req.op = "update_profile"
    /\ resp.status = 200
    /\ "email" \in DOMAIN req.data
    /\ Cardinality(DOMAIN users) = 2
    /\ \E u \in DOMAIN users :
          users[u].email = req.data["email"] /\ users[u].created_at + 1 < users[u].updated_at

\* a register body whose five fields are all non-empty
RegisterPresent(data) ==
    \A i \in DOMAIN RegisterFields : TruthyStr(GetStr(data, RegisterFields[i]))

\* C14: a register whose username or whose email a stored user already has
\* answers 400 with an 'already exists' error and no token, issues no token,
\* and leaves the users table, password hashes included, as it was.
C14_DuplicateRegisterConflicts ==
    [][(/\ req'.op = "register"
        /\ RegisterPresent(req'.data)
        /\ \E u \in DOMAIN users : \/ users[u].username = req'.data["username"]
                                   \/ users[u].email = req'.data["email"])
        => /\ resp'.status = 400
           /\ resp'.error \in {"Username already exists", "Email already exists"}
           /\ resp'.access_token = NoToken
           /\ resp'.user = <<>>
           /\ tokens' = tokens
           /\ users' = users]_vars

\* C14 witness: a register with a stored username and another password was
\* refused and the stored hash is not that of the password it carried
C14_Witness ==
    /\ req.op = "register"
    /\ resp.error = "Username already exists"
    /\ \E u \in DOMAIN users :
          /\ users[u].username = req.data["username"]
          /\ users[u].password_hash # password_hash(req.data["password"])

\* C15: a login with username and password given, where no user matching
\* the name has that password (no user matches at all, or the password is
\* wrong, the matching user active or not), gets the one response 401
\* 'Invalid username or password' and no token.
C15_FailedLoginUniform ==
    [][(/\ req'.op = "login"
        /\ TruthyStr(GetStr(req'.data, "username"))
        /\ TruthyStr(GetStr(req'.data, "password"))
        /\ \A u \in login_matches(users, req'.data["username"]) :
              users[u].password_hash # password_hash(req'.data["password"]))
        => /\ resp' = AuthError(401, "Invalid username or password")
           /\ tokens' = tokens]_vars

\* C15 witness: a login naming an inactive user with a wrong password was
\* answered 401
C15_Witness ==
    /\ req.op = "login"
    /\ resp.status = 401
    /\ \E u \in login_matches(users, req.data["username"]) : ~users[u].is_active

\* C15, no user matching at all, with users stored
C15_WitnessNoMatch ==
    /\ req.op = "login"
    /\ resp.status = 401
    /\ users # <<>>
    /\ login_matches(users, req.data["username"]) = {}

\* C16: a login that returns 200 or a token does so for an active user
\* matching the name whose password matches, with that user's token; when
\* every user matching the name is inactive and has the password, the
\* answer is 403 and no token is issued.
C16_NoTokenForInactiveUser ==
    [][req'.op = "login"
        => /\ (resp'.status = 200 \/ resp'.access_token # NoToken \/ tokens' # tokens)
                => \E u \in login_matches(users, req'.data["username"]) :
                      /\ users[u].is_active
                      /\ users[u].password_hash = password_hash(req'.data["password"])
                      /\ resp'.status = 200
                      /\ resp'.access_token = create_access_token(IdStr(u))
                      /\ resp'.user = <<user_to_dict(users[u])>>
                      /\ tokens' = tokens \cup {resp'.access_token}
           /\ (/\ TruthyStr(GetStr(req'.data, "username"))
               /\ TruthyStr(GetStr(req'.data, "password"))
               /\ login_matches(users, req'.data["username"]) # {}
               /\ \A u \in login_matches(users, req'.data["username"]) :
                     /\ ~users[u].is_active
                     /\ users[u].password_hash = password_hash(req'.data["password"]))
                => /\ resp' = AuthError(403, "User account is inactive")
                   /\ tokens' = tokens]_vars

\* C16 witness: a login naming an inactive user with the right password was
\* answered 403
C16_Witness ==
    /\ req.op = "login"
    /\ resp.status = 403
    /\ \E u \in login_matches(users, req.data["username"]) :
          ~users[u].is_active /\ check_password(users[u], req.data["password"])

\* the row a stored user and a profile body combine to
MergedProfile(old, data, now) ==
    [old EXCEPT
        !.first_name = IF "first_name" \in DOMAIN data THEN data["first_name"] ELSE @,
        !.last_name = IF "last_name" \in DOMAIN data THEN data["last_name"] ELSE @,
        !.email = IF "email" \in DOMAIN data THEN data["email"] ELSE @,
        !.updated_at = now]

\* C17: an update_profile of the token's user that supplies an email some
\* other user has answers 400 and leaves the users table as it was; any
\* other body, one supplying the caller's own email included, succeeds and
\* changes the supplied fields among first_name, last_name, email (and
\* updated_at) of that user only.
C17_ProfileEmailConflict ==
    [][(/\ req'.op = "update_profile"
        /\ req'.token \in tokens
        /\ QueryGetUser(users, req'.token[2]) # {})
        => LET uid == CHOOSE u \in DOMAIN users : IdStr(u) = req'.token[2]
               data == req'.data
           IN  IF /\ "email" \in DOMAIN data
                  /\ \E v \in DOMAIN users : v # uid /\ users[v].email = data["email"]
               THEN /\ resp' = AuthError(400, "Email already in use")
                    /\ users' = users
               ELSE /\ resp'.status = 200
                    /\ users' = [users EXCEPT ![uid] = MergedProfile(users[uid], data, clock)]
                    /\ resp'.user = <<user_to_dict(users'[uid])>>]_vars

\* C17 witness: an update_profile carrying a new first name and another
\* user's email was refused and the stored first name is not the one it carried
C17_Witness ==
    /\ req.op = "update_profile"
    /\ resp.status = 400
    /\ "first_name" \in DOMAIN req.data
    /\ \E u \in DOMAIN users :
          /\ IdStr(u) = req.token[2]
          /\ users[u].first_name # req.data["first_name"]
          /\ users[u].email # req.data["email"]

\* C17, the accepted case: the only user's update_profile supplying just an
\* email succeeded
C17_WitnessAccepted ==
    /\ req.op = "update_profile"
    /\ resp.status = 200
    /\ DOMAIN req.data = {"email"}
    /\ clock = 2
    /\ Cardinality(DOMAIN users) = 1

\* two requests of one kind for one id, both past their checks before either
\* committed, p the first to commit
Raced(p, q, op) ==
    /\ p # q
    /\ txns[p].pc = "done" /\ txns[q].pc = "done"
    /\ txns[p].op = op /\ txns[q].op = op
    /\ txns[p].id = txns[q].id
    /\ txns[p].committed > 0 /\ txns[q].committed > 0
    /\ txns[q].began < txns[p].committed
    /\ txns[p].committed < txns[q].committed

\* C18: of two creates of one id that both passed the existence check before
\* either committed, the first to commit returns 201 and the other 400
\* 'Dataset ID already exists'; the table then holds for that id the one
\* record built from the first committer's body.
C18_ConcurrentCreateConflict ==
    \A p, q \in Procs :
        Raced(p, q, "create")
            => /\ txns[p].resp.status = 201
               /\ txns[q].resp = Error(400, "Dataset ID already exists")
               /\ txns[p].id \in DOMAIN datasets
               /\ datasets[txns[p].id] = new_dataset(txns[p].data, txns[p].committed)
               /\ txns[p].resp.dataset = <<to_dict(datasets[txns[p].id])>>

\* C18 witness: two creates of one id with different names raced
C18_Witness ==
    \E p, q \in Procs :
        /\ Raced(p, q, "create")
        /\ txns[p].data["dataset_name"] # txns[q].data["dataset_name"]
        /\ txns[q].resp.status = 400

\* C19: of two updates of one existing dataset that ran concurrently, both
\* return 200, and every field both bodies supplied holds afterwards the
\* value of the request that committed last.
C19_LastCommitterWins ==
    \A p, q \in Procs :
        Raced(p, q, "update")
            => /\ txns[p].resp.status = 200
               /\ txns[q].resp.status = 200
               /\ \A f \in DOMAIN txns[p].data \cap DOMAIN txns[q].data :
                     datasets[txns[q].id][f] = txns[q].data[f]

\* C21: whenever a create or an update commits and returns success, every
\* upstream id its body supplied names a dataset that is in the table at
\* the moment of that commit.
C21_DependenciesExistAtCommit ==
    [][\A p \in Procs :
          (/\ txns[p].pc = "commit"
           /\ txns[p].op \in {"create", "update"}
           /\ txns'[p].pc = "done"
           /\ txns'[p].resp.status \in {200, 201})
          => Range(upstream_deps_of(txns[p].data)) \subseteq DOMAIN datasets]_vars

====
